---- MODULE Spec2Model ----
(***************************************************************************)
(* FetchCacher (cli/cache/mod.rs): the deno_graph Loader that wraps the    *)
(* FileFetcher and the EmitCache.  The model covers get_cache_info and     *)
(* load, the futures load returns (created, awaiting the fetch, done,      *)
(* dropped), and the collaborators the two methods consult.                *)
(***************************************************************************)
EXTENDS Integers, Sequences, FiniteSets, Bags, TLC

VARIABLES
  file_header_overrides,  \* FetchCacher.file_header_overrides
  root_permissions,       \* FetchCacher.root_permissions
  dynamic_permissions,    \* FetchCacher.dynamic_permissions
  constructed,            \* the arguments FetchCacher::new was called with
  store,                  \* what FileFetcher::fetch answers for a specifier
  files,                  \* paths for which Path::is_file() is true
  calls,                  \* the futures returned by load, as a bag
  fetch_invocations,      \* per specifier, how often FileFetcher::fetch ran
  cache_info              \* the last get_cache_info call and what it returned

vars == <<file_header_overrides, root_permissions, dynamic_permissions,
          constructed, store, files, calls, fetch_invocations, cache_info>>

(***************************************************************************)
(* Bounds                                                                  *)
(***************************************************************************)
MaxCalls == 2
MaxFetches == 2

(***************************************************************************)
(* Option<T>: None is the empty sequence, Some(x) the one-element one.     *)
(***************************************************************************)
None == << >>
Some(x) == <<x>>
IsSome(o) == Len(o) = 1
IsNone(o) == Len(o) = 0
Unwrap(o) == o[1]

(***************************************************************************)
(* Module specifiers                                                       *)
(***************************************************************************)
NpmGood == [scheme |-> "npm", path |-> "left-pad@1.0.0"]
NpmBad == [scheme |-> "npm", path |-> ""]
FileId == [scheme |-> "file", path |-> "/missing.ts"]
HttpsId == [scheme |-> "https", path |-> "example.com/mod.ts"]
HttpsRedirected == [scheme |-> "https", path |-> "example.com/v2/mod.ts"]
DataId == [scheme |-> "data", path |-> "text/plain,1"]
NoSpecifier == [scheme |-> "", path |-> ""]

Fetchable == {FileId, HttpsId}
LoadSpecifiers == {NpmGood, NpmBad} \cup Fetchable
InfoSpecifiers == LoadSpecifiers \cup {DataId}

Scheme(specifier) == specifier.scheme

(***************************************************************************)
(* Errors: an anyhow::Error either wraps a std::io::Error (io, with its    *)
(* kind) or is another error that carries its own class name.              *)
(***************************************************************************)
IoError(kind) == [io |-> TRUE, kind |-> kind, class |-> "", msg |-> "io"]
CustomError(class, msg) == [io |-> FALSE, kind |-> "", class |-> class, msg |-> msg]
NoError == [io |-> FALSE, kind |-> "", class |-> "", msg |-> ""]

PermissionDeniedError == CustomError("PermissionDenied", "Requires access")
NpmParseError == CustomError("Error", "Not a valid package")

get_io_error_class(kind) ==
  CASE kind = "NotFound" -> "NotFound"
    [] kind = "PermissionDenied" -> "PermissionDenied"
    [] kind = "ConnectionRefused" -> "ConnectionRefused"
    [] OTHER -> "Error"

get_error_class_name(err) ==
  IF err.io THEN get_io_error_class(err.kind) ELSE err.class

(***************************************************************************)
(* npm package references                                                  *)
(***************************************************************************)
NpmPackageReference_from_specifier(specifier) ==
  IF specifier.path = ""
  THEN [ok |-> FALSE, err |-> NpmParseError]
  ELSE [ok |-> TRUE, err |-> NoError]

(***************************************************************************)
(* Header maps: HashMap<String, String> as a function on its key set.      *)
(***************************************************************************)
EmptyMap == [k \in {} |-> ""]
PlainHeaders == [k \in {"content-type", "etag"} |->
                   IF k = "content-type" THEN "text/plain" ELSE "abc"]
OverrideHeaders == [k \in {"content-type", "x-typescript-types"} |->
                      IF k = "content-type" THEN "application/typescript"
                      ELSE "./mod.d.ts"]

\* HashMap::extend: every entry of other is inserted, replacing equal keys
Extend(headers, other) ==
  [k \in DOMAIN headers \cup DOMAIN other |->
     IF k \in DOMAIN other THEN other[k] ELSE headers[k]]

maybe_extend_flipped(maybe_map, maybe_extend) ==
  IF IsNone(maybe_map) /\ IsNone(maybe_extend)
  THEN None
  ELSE LET h1 == IF IsSome(maybe_extend) THEN Extend(EmptyMap, Unwrap(maybe_extend))
                 ELSE EmptyMap
           h2 == IF IsSome(maybe_map) THEN Extend(h1, Unwrap(maybe_map)) ELSE h1
       IN Some(h2)

maybe_extend_optional_map(maybe_map, maybe_extend) ==
  IF IsNone(maybe_map) /\ IsNone(maybe_extend)
  THEN None
  ELSE LET h1 == IF IsSome(maybe_map) THEN Extend(EmptyMap, Unwrap(maybe_map))
                 ELSE EmptyMap
           h2 == IF IsSome(maybe_extend) THEN Extend(h1, Unwrap(maybe_extend)) ELSE h1
       IN Some(h2)

\* HashMap::get
Get(map, key) == IF key \in DOMAIN map THEN Some(map[key]) ELSE None

(***************************************************************************)
(* Files the fetcher returns, fetch outcomes, load results                 *)
(***************************************************************************)
File(specifier, maybe_headers, source) ==
  [specifier |-> specifier, maybe_headers |-> maybe_headers, source |-> source]
NoFile == File(NoSpecifier, None, "")

FetchOk(file) == [ok |-> TRUE, file |-> file, err |-> NoError]
FetchErr(err) == [ok |-> FALSE, file |-> NoFile, err |-> err]

Module(specifier, maybe_headers, content) ==
  [tag |-> "Module", specifier |-> specifier, maybe_headers |-> maybe_headers,
   content |-> content, err |-> NoError]
External(specifier) ==
  [tag |-> "External", specifier |-> specifier, maybe_headers |-> None,
   content |-> "", err |-> NoError]
Absent ==
  [tag |-> "Absent", specifier |-> NoSpecifier, maybe_headers |-> None,
   content |-> "", err |-> NoError]
Failure(err) ==
  [tag |-> "Failure", specifier |-> NoSpecifier, maybe_headers |-> None,
   content |-> "", err |-> err]

(***************************************************************************)
(* load: the registry-package branch, the per-call clones, and the two     *)
(* closures of map_or_else                                                 *)
(***************************************************************************)
NpmAlwaysExternal(specifier) == External(specifier)

\* the ready future's value for an npm: specifier
NpmLoadResponse(specifier) ==
  LET parsed == NpmPackageReference_from_specifier(specifier)
  IN IF parsed.ok THEN External(specifier) ELSE Failure(parsed.err)

AlwaysRootPermissions(is_dynamic) == "root"

\* which of the facade's two permission sets a call takes
SelectPermissions(is_dynamic) == IF is_dynamic THEN "dynamic" ELSE "root"

SharePermissions(which) == which

\* .clone(): the call owns a permission set of its own; the result names the
\* object the fetcher is handed a &mut to
ClonePermissions(which) == "own"

FacadePermissions(which) ==
  IF which = "dynamic" THEN dynamic_permissions ELSE root_permissions

OnlyIoNotFound(err) ==
  IF err.io /\ err.kind = "NotFound" THEN Absent ELSE Failure(err)

\* the error closure of map_or_else
FetchErrToResult(err) ==
  IF err.io
  THEN IF err.kind = "NotFound" THEN Absent ELSE Failure(err)
  ELSE IF get_error_class_name(err) = "NotFound" THEN Absent ELSE Failure(err)

RequestedSpecifierWhenOverridden(file, specifier, overrides) ==
  LET maybe_overridden_headers == Get(overrides, specifier)
  IN Module(IF IsSome(maybe_overridden_headers) THEN specifier ELSE file.specifier,
            maybe_extend_optional_map(file.maybe_headers, maybe_overridden_headers),
            file.source)

\* the success closure of map_or_else
FileToResult(file, specifier, overrides) ==
  LET maybe_overridden_headers == Get(overrides, specifier)
  IN Module(file.specifier,
            maybe_extend_optional_map(file.maybe_headers, maybe_overridden_headers),
            file.source)

RetryOnFailure(outcome) == IF outcome.ok THEN "done" ELSE "created"

\* the async block ends with the value of map_or_else: the future is done
AfterFetch(outcome) == "done"

(***************************************************************************)
(* The collaborators                                                       *)
(***************************************************************************)
LocalFile == "/missing.ts"
LocalHttps == "deps/https/example.com/mod"
EmitFile == "gen/file/missing.ts.js"
EmitData == "gen/data/1.js"
Paths == {LocalFile, LocalHttps, EmitFile, EmitData}

\* FileFetcher::get_local_path
get_local_path(specifier) ==
  CASE specifier = FileId -> Some(LocalFile)
    [] specifier = HttpsId -> Some(LocalHttps)
    [] OTHER -> None

\* EmitCache::get_emit_filepath
get_emit_filepath(specifier) ==
  CASE specifier = FileId -> Some(EmitFile)
    [] specifier = DataId -> Some(EmitData)
    [] OTHER -> None

is_file(p) == p \in files

\* FileFetcher::fetch with the permission set it was handed
Fetch(specifier, permissions) ==
  IF specifier \notin permissions
  THEN FetchErr(PermissionDeniedError)
  ELSE store[specifier]

(***************************************************************************)
(* get_cache_info                                                          *)
(***************************************************************************)
CacheInfo(local, emit, map) == [local |-> local, emit |-> emit, map |-> map]

InfoIgnoringIsFile(specifier) ==
  IF Scheme(specifier) = "npm" THEN None
  ELSE LET local == get_local_path(specifier)
       IN IF IsNone(local) THEN None
          ELSE Some(CacheInfo(local, get_emit_filepath(specifier), None))

InfoUnfilteredEmit(specifier) ==
  IF Scheme(specifier) = "npm" THEN None
  ELSE LET local == get_local_path(specifier)
       IN IF IsNone(local) THEN None
          ELSE IF is_file(Unwrap(local))
               THEN Some(CacheInfo(local, get_emit_filepath(specifier), None))
               ELSE None

\* Option::filter(|p| p.is_file())
FilterIsFile(maybe_path) ==
  IF IsSome(maybe_path) /\ is_file(Unwrap(maybe_path)) THEN maybe_path ELSE None

get_cache_info(specifier) ==
  IF Scheme(specifier) = "npm" THEN None
  ELSE LET local == get_local_path(specifier)
       IN IF IsNone(local) THEN None
          ELSE IF is_file(Unwrap(local))
               THEN Some(CacheInfo(local,
                                   FilterIsFile(get_emit_filepath(specifier)),
                                   None))
               ELSE None

(***************************************************************************)
(* Construction: FetchCacher::new stores its arguments.  The arguments and *)
(* the fetcher's backing store are drawn from the sets below.              *)
(***************************************************************************)
\* <<root_permissions, dynamic_permissions>>
PermissionPairs ==
  { <<{FileId, HttpsId}, {FileId, HttpsId}>>,
    <<{FileId, HttpsId}, {FileId}>>,
    <<{FileId}, {FileId, HttpsId}>> }

OverrideTables ==
  { [s \in {HttpsId} |-> OverrideHeaders],
    [s \in {FileId} |-> EmptyMap] }

FileOk == FetchOk(File(FileId, None, "export {}"))
HttpsOk == FetchOk(File(HttpsId, Some(PlainHeaders), "export {}"))
HttpsRedirect == FetchOk(File(HttpsRedirected, None, "export {}"))

StoreOf(f, h) == [s \in Fetchable |-> IF s = FileId THEN f ELSE h]

Stores ==
  { StoreOf(FileOk, HttpsOk),
    StoreOf(FetchErr(IoError("NotFound")), HttpsRedirect),
    StoreOf(FetchErr(IoError("PermissionDenied")),
            FetchErr(CustomError("NotFound", "404"))),
    StoreOf(FileOk, FetchErr(CustomError("Http", "500"))) }

InitialFiles == {LocalFile, EmitFile}

NoCacheInfo == [specifier |-> NoSpecifier, result |-> None, snapshot |-> {}]

Init ==
  /\ file_header_overrides \in OverrideTables
  /\ \E pair \in PermissionPairs :
       /\ root_permissions = pair[1]
       /\ dynamic_permissions = pair[2]
  /\ constructed = [file_header_overrides |-> file_header_overrides,
                    root_permissions |-> root_permissions,
                    dynamic_permissions |-> dynamic_permissions]
  /\ store \in Stores
  /\ files = InitialFiles
  /\ calls = EmptyBag
  /\ fetch_invocations = [s \in LoadSpecifiers |-> 0]
  /\ cache_info = NoCacheInfo

(***************************************************************************)
(* Actions                                                                 *)
(***************************************************************************)
Call(specifier, is_dynamic, pc, perm_obj, permissions, overrides, result) ==
  [specifier |-> specifier, is_dynamic |-> is_dynamic, pc |-> pc,
   perm_obj |-> perm_obj, permissions |-> permissions, handed |-> None,
   file_header_overrides |-> overrides, outcome |-> None, result |-> result,
   fetches |-> 0, awaits |-> 0]

Pending == BagToSet(calls)

\* the bag with one future in state c replaced by one in state d
Replace(c, d) == (calls (-) SetToBag({c})) (+) SetToBag({d})

\* load(&mut self, specifier, is_dynamic) up to the future it returns
Load(specifier, is_dynamic) ==
  /\ BagCardinality(calls) < MaxCalls
  /\ IF Scheme(specifier) = "npm"
     THEN calls' = calls (+) SetToBag({
            Call(specifier, is_dynamic, "done", "own", {}, EmptyMap,
                 Some(NpmLoadResponse(specifier)))})
     ELSE LET which == SelectPermissions(is_dynamic)
              obj == ClonePermissions(which)
          IN calls' = calls (+) SetToBag({
               Call(specifier, is_dynamic, "created", obj,
                    IF obj = "own" THEN FacadePermissions(which) ELSE {},
                    file_header_overrides, None)})
  /\ UNCHANGED <<file_header_overrides, root_permissions, dynamic_permissions,
                 constructed, store, files, fetch_invocations, cache_info>>

\* the permission set future c hands to the fetcher
PermissionsOf(c) ==
  IF c.perm_obj = "own" THEN c.permissions ELSE FacadePermissions(c.perm_obj)

\* first poll of the async block: file_fetcher.fetch(..) is invoked and awaited
FetchStart(c) ==
  /\ c.pc = "created"
  /\ c.fetches < MaxFetches
  /\ calls' = Replace(c, [c EXCEPT !.pc = "awaiting",
                                   !.handed = Some(PermissionsOf(c)),
                                   !.fetches = @ + 1,
                                   !.awaits = @ + 1])
  /\ fetch_invocations' = [fetch_invocations EXCEPT ![c.specifier] = @ + 1]
  /\ UNCHANGED <<file_header_overrides, root_permissions, dynamic_permissions,
                 constructed, store, files, cache_info>>

\* the fetcher holds &mut permissions while it runs and may change the set
FetcherChangesPermissions(c) ==
  /\ c.pc = "awaiting"
  /\ LET s == c.specifier
         changed == IF s \in PermissionsOf(c) THEN PermissionsOf(c) \ {s}
                    ELSE PermissionsOf(c) \cup {s}
     IN CASE c.perm_obj = "own" ->
               /\ calls' = Replace(c, [c EXCEPT !.permissions = changed])
               /\ UNCHANGED <<root_permissions, dynamic_permissions>>
          [] c.perm_obj = "root" ->
               /\ root_permissions' = changed
               /\ UNCHANGED <<calls, dynamic_permissions>>
          [] OTHER ->
               /\ dynamic_permissions' = changed
               /\ UNCHANGED <<calls, root_permissions>>
  /\ UNCHANGED <<file_header_overrides, constructed, store, files,
                 fetch_invocations, cache_info>>

\* the fetch resolves; map_or_else turns its outcome into the load result
FetchComplete(c) ==
  /\ c.pc = "awaiting"
  /\ LET outcome == Fetch(c.specifier, Unwrap(c.handed))
         pc == AfterFetch(outcome)
         result == IF outcome.ok
                   THEN FileToResult(outcome.file, c.specifier,
                                     c.file_header_overrides)
                   ELSE FetchErrToResult(outcome.err)
     IN calls' = Replace(c, [c EXCEPT !.pc = pc,
                                      !.permissions = {},
                                      !.outcome = Some(outcome),
                                      !.result = IF pc = "done" THEN Some(result)
                                                 ELSE None])
  /\ UNCHANGED <<file_header_overrides, root_permissions, dynamic_permissions,
                 constructed, store, files, fetch_invocations, cache_info>>

\* the caller drops a future that has not completed: its captures are freed,
\* what remains on record is the specifier and whether its fetch had started
Drop(c) ==
  /\ c.pc \in {"created", "awaiting"}
  /\ calls' = Replace(c, [c EXCEPT !.pc = "dropped",
                                   !.is_dynamic = FALSE,
                                   !.permissions = {},
                                   !.handed = None,
                                   !.file_header_overrides = EmptyMap])
  /\ UNCHANGED <<file_header_overrides, root_permissions, dynamic_permissions,
                 constructed, store, files, fetch_invocations, cache_info>>

GetCacheInfo(specifier) ==
  /\ cache_info' = [specifier |-> specifier,
                    result |-> get_cache_info(specifier),
                    snapshot |-> files]
  /\ UNCHANGED <<file_header_overrides, root_permissions, dynamic_permissions,
                 constructed, store, files, calls, fetch_invocations>>

\* the file system changes under the caches
CreateFile(p) ==
  /\ p \notin files
  /\ files' = files \cup {p}
  /\ UNCHANGED <<file_header_overrides, root_permissions, dynamic_permissions,
                 constructed, store, calls, fetch_invocations, cache_info>>

RemoveFile(p) ==
  /\ p \in files
  /\ files' = files \ {p}
  /\ UNCHANGED <<file_header_overrides, root_permissions, dynamic_permissions,
                 constructed, store, calls, fetch_invocations, cache_info>>

Next ==
  \/ \E specifier \in LoadSpecifiers, is_dynamic \in BOOLEAN :
       Load(specifier, is_dynamic)
  \/ \E c \in Pending : FetchStart(c)
  \/ \E c \in Pending : FetcherChangesPermissions(c)
  \/ \E c \in Pending : FetchComplete(c)
  \/ \E c \in Pending : Drop(c)
  \/ \E specifier \in InfoSpecifiers : GetCacheInfo(specifier)

Spec == Init /\ [][Next]_vars

NextInfo ==
  \/ \E specifier \in InfoSpecifiers : GetCacheInfo(specifier)
  \/ \E p \in Paths : CreateFile(p)
  \/ \E p \in Paths : RemoveFile(p)

SpecInfo == Init /\ [][NextInfo]_vars

(***************************************************************************)
(* Properties                                                              *)
(***************************************************************************)
IsNpm(c) == Scheme(c.specifier) = "npm"
Done(c) == c.pc = "done"
Fetched(c) == Done(c) /\ IsSome(c.outcome)
FetchedOk(c) == Fetched(c) /\ Unwrap(c.outcome).ok
FetchedErr(c) == Fetched(c) /\ ~Unwrap(c.outcome).ok
ChosenPermissions(c) ==
  IF c.is_dynamic THEN dynamic_permissions ELSE root_permissions

\* C1: a load of an npm: specifier, static or dynamic, is complete when load
\* returns, has not awaited anything and has not invoked the fetcher; its
\* result is External with the requested specifier when the package
\* reference parses and Failure with the parse error when it does not.
NpmLoadIsImmediate ==
  /\ \A s \in LoadSpecifiers : Scheme(s) = "npm" => fetch_invocations[s] = 0
  /\ \A c \in Pending :
       IsNpm(c) =>
         /\ Done(c) /\ c.awaits = 0 /\ c.fetches = 0 /\ IsNone(c.outcome)
         /\ LET parsed == NpmPackageReference_from_specifier(c.specifier)
            IN c.result = IF parsed.ok
                          THEN Some([tag |-> "External", specifier |-> c.specifier,
                                     maybe_headers |-> None, content |-> "",
                                     err |-> NoError])
                          ELSE Some([tag |-> "Failure", specifier |-> NoSpecifier,
                                     maybe_headers |-> None, content |-> "",
                                     err |-> parsed.err])

NpmLoadWitness ==
  \E c, d \in Pending :
    /\ c.specifier = NpmGood /\ ~c.is_dynamic /\ Unwrap(c.result).tag = "External"
    /\ d.specifier = NpmBad /\ d.is_dynamic /\ Unwrap(d.result).tag = "Failure"

\* C2: when the fetch of a load fails, the load is Absent exactly when the
\* error is an io NotFound or its class name is "NotFound"; every other error
\* is the load's Failure, the same error value.
NotFoundBecomesAbsent ==
  \A c \in Pending :
    FetchedErr(c) =>
      LET e == Unwrap(c.outcome).err
          r == Unwrap(c.result)
          not_found == (e.io /\ e.kind = "NotFound")
                         \/ get_error_class_name(e) = "NotFound"
      IN /\ r.tag = "Absent" <=> not_found
         /\ ~not_found => r.tag = "Failure" /\ r.err = e

NotFoundWitness ==
  \E c, d \in Pending :
    /\ FetchedErr(c) /\ ~Unwrap(c.outcome).err.io
    /\ get_error_class_name(Unwrap(c.outcome).err) = "NotFound"
    /\ Unwrap(c.result).tag = "Absent"
    /\ FetchedErr(d) /\ Unwrap(d.outcome).err = IoError("PermissionDenied")
    /\ Unwrap(d.result).tag = "Failure"

\* C3: the permission set handed to the fetcher is the call's own copy of the
\* dynamic set for a dynamic load and of the root set for a static one; so
\* where the dynamic set denies a specifier the root set allows, a dynamic
\* load of it fails with PermissionDenied and a static load gets what the
\* fetcher's store holds for it, a Module when that is a file.
PermissionsChosenPerCall ==
  \A c \in Pending :
    /\ IsSome(c.handed) =>
         c.perm_obj = "own" /\ Unwrap(c.handed) = ChosenPermissions(c)
    /\ (Done(c) /\ ~IsNpm(c) /\ c.specifier \notin dynamic_permissions
          /\ c.specifier \in root_permissions) =>
         IF c.is_dynamic
         THEN /\ Unwrap(c.result).tag = "Failure"
              /\ Unwrap(c.result).err = PermissionDeniedError
         ELSE /\ c.outcome = Some(store[c.specifier])
              /\ store[c.specifier].ok => Unwrap(c.result).tag = "Module"

PermissionsWitness ==
  \E c, d \in Pending :
    /\ c.specifier = d.specifier /\ c.is_dynamic /\ ~d.is_dynamic
    /\ Done(c) /\ Unwrap(c.result).err = PermissionDeniedError
    /\ Done(d) /\ Unwrap(d.result).tag = "Module"

\* C4: the headers of a returned Module are None exactly when the fetched
\* file has no headers and the override table has no entry for the requested
\* specifier; otherwise they hold every override key with the override's
\* value, every other fetched key with the fetched value, and nothing else.
HeadersAreMerged ==
  \A c \in Pending :
    FetchedOk(c) =>
      LET M == Unwrap(c.outcome).file.maybe_headers
          O == IF c.specifier \in DOMAIN file_header_overrides
               THEN Some(file_header_overrides[c.specifier]) ELSE None
          R == Unwrap(c.result).maybe_headers
      IN /\ Unwrap(c.result).tag = "Module"
         /\ IsNone(R) <=> (IsNone(M) /\ IsNone(O))
         /\ IsSome(R) =>
              LET keysM == IF IsSome(M) THEN DOMAIN Unwrap(M) ELSE {}
                  keysO == IF IsSome(O) THEN DOMAIN Unwrap(O) ELSE {}
              IN /\ DOMAIN Unwrap(R) = keysM \cup keysO
                 /\ \A k \in keysO : Unwrap(R)[k] = Unwrap(O)[k]
                 /\ \A k \in keysM \ keysO : Unwrap(R)[k] = Unwrap(M)[k]

HeadersWitness ==
  \E c \in Pending :
    /\ FetchedOk(c)
    /\ Unwrap(c.outcome).file.maybe_headers = Some(PlainHeaders)
    /\ c.specifier \in DOMAIN file_header_overrides
    /\ Unwrap(Unwrap(c.result).maybe_headers)["content-type"]
         = "application/typescript"
    /\ Unwrap(Unwrap(c.result).maybe_headers)["etag"] = "abc"

\* C5 as stated: the Module's specifier is the requested specifier when the
\* override table has an entry for it, and the fetcher's otherwise.
ModuleSpecifierRequestedWhenOverridden ==
  \A c \in Pending :
    FetchedOk(c) =>
      Unwrap(c.result).specifier =
        IF c.specifier \in DOMAIN file_header_overrides
        THEN c.specifier
        ELSE Unwrap(c.outcome).file.specifier

\* C5 amended: the Module's specifier is the one the fetcher reports, whether
\* or not the override table has an entry for the requested specifier.
ModuleSpecifierIsFetchers ==
  \A c \in Pending :
    FetchedOk(c) =>
      Unwrap(c.result).specifier = Unwrap(c.outcome).file.specifier

ModuleSpecifierWitness ==
  \E c \in Pending :
    /\ FetchedOk(c)
    /\ c.specifier \in DOMAIN file_header_overrides
    /\ Unwrap(c.outcome).file.specifier # c.specifier
    /\ Unwrap(c.result).specifier = HttpsRedirected

Asked == cache_info.specifier # NoSpecifier

\* C6: get_cache_info returns a snapshot exactly when the specifier is not an
\* npm: specifier and the fetcher's local path for it is an existing file,
\* whatever the emit cache holds; the snapshot's local is that path.
SnapshotIffLocalFile ==
  Asked =>
    LET s == cache_info.specifier
        local == get_local_path(s)
    IN /\ IsSome(cache_info.result) <=>
            /\ Scheme(s) # "npm"
            /\ IsSome(local)
            /\ Unwrap(local) \in cache_info.snapshot
       /\ IsSome(cache_info.result) => Unwrap(cache_info.result).local = local

SnapshotWitness ==
  /\ cache_info.specifier = HttpsId
  /\ LocalHttps \notin cache_info.snapshot
  /\ EmitFile \in cache_info.snapshot
  /\ IsNone(cache_info.result)

\* C7: in a snapshot, emit is present exactly when the emit cache reports a
\* path for the specifier and that path is an existing file, and it is that
\* path; map is always None.
EmitIffEmitFile ==
  (Asked /\ IsSome(cache_info.result)) =>
    LET s == cache_info.specifier
        emit == get_emit_filepath(s)
        info == Unwrap(cache_info.result)
    IN /\ IsSome(info.emit) <=>
            (IsSome(emit) /\ Unwrap(emit) \in cache_info.snapshot)
       /\ IsSome(info.emit) => info.emit = emit
       /\ info.map = None

EmitWitness ==
  /\ cache_info.specifier = FileId
  /\ EmitFile \notin cache_info.snapshot
  /\ IsSome(cache_info.result)
  /\ IsNone(Unwrap(cache_info.result).emit)

RECURSIVE FetchesOf(_, _)
FetchesOf(S, s) ==
  IF S = {} THEN 0
  ELSE LET c == CHOOSE x \in S : TRUE
       IN (IF c.specifier = s THEN c.fetches * CopiesIn(c, calls) ELSE 0)
            + FetchesOf(S \ {c}, s)

\* C9: every load invokes the fetcher at most once and awaits at most once,
\* a load that has not been polled not at all, a polled or completed load
\* of a fetchable specifier exactly once; the fetcher's invocations per
\* specifier are the sum over the loads of that specifier; and a completed
\* load's outcome is the fetch of its own specifier under its own flag's
\* permission set.
OneFetchPerLoad ==
  /\ \A c \in Pending :
       /\ c.fetches <= 1 /\ c.awaits = c.fetches
       /\ c.pc = "created" => c.fetches = 0
       /\ c.pc = "awaiting" => c.fetches = 1
       /\ (Done(c) /\ ~IsNpm(c)) =>
            /\ c.fetches = 1
            /\ c.outcome = Some(Fetch(c.specifier, ChosenPermissions(c)))
  /\ \A s \in LoadSpecifiers : fetch_invocations[s] = FetchesOf(Pending, s)

OneFetchWitness ==
  \E c, d \in Pending :
    /\ c.specifier = HttpsId /\ d.specifier = HttpsId
    /\ c.pc = "awaiting" /\ FetchedErr(d)
    /\ fetch_invocations[HttpsId] = 2

\* C10: the facade's override table and permission sets are what
\* FetchCacher::new was given, and every pending load holds the copies it
\* took when load was called, whatever the fetcher did to the permission set
\* of another load and whichever loads were dropped.
FacadeUnchanged ==
  /\ file_header_overrides = constructed.file_header_overrides
  /\ root_permissions = constructed.root_permissions
  /\ dynamic_permissions = constructed.dynamic_permissions
  /\ \A c \in Pending :
       /\ c.pc = "created" =>
            /\ c.perm_obj = "own"
            /\ c.permissions =
                 IF c.is_dynamic THEN constructed.dynamic_permissions
                 ELSE constructed.root_permissions
            /\ c.file_header_overrides = constructed.file_header_overrides
       /\ c.pc = "awaiting" =>
            /\ Unwrap(c.handed) =
                 IF c.is_dynamic THEN constructed.dynamic_permissions
                 ELSE constructed.root_permissions
            /\ c.file_header_overrides = constructed.file_header_overrides

FacadeWitness ==
  \E c, d \in Pending :
    /\ c.pc = "awaiting" /\ c.permissions # Unwrap(c.handed)
    /\ d.pc = "dropped" /\ d.fetches = 1
    /\ Asked

====
